---- MODULE Spec2Model ----
(***************************************************************************)
(* Model of the programmingbitcoin-rust library: prime-field arithmetic    *)
(* (finitefield.rs), the elliptic-curve group law (ellipticcurve.rs),      *)
(* ECDSA signing / verification and the RFC 6979 nonce generator           *)
(* (ecdsa.rs, messagedigest.rs), and the SEC, DER and Base58 encodings     *)
(* (serialization.rs, base58.rs).                                          *)
(*                                                                         *)
(* The library is a set of functions over immutable values.  The state of  *)
(* the model is the curve a driver works with, the private key it has      *)
(* built, and the record of the last library call (operation, arguments,   *)
(* outcome).  An outcome is [ok |-> v] for a returned value or             *)
(* [panic |-> msg] for a Rust panic (process abort, nothing returned).     *)
(* A behaviour is one run of a driver such as main.rs: it builds the       *)
(* curve, builds private keys, then makes one library call on values of    *)
(* its choice, and possibly one more call on the value that call returned. *)
(* The loop of the nonce generator is followed one iteration at a time.    *)
(*                                                                         *)
(* rug::Integer is unbounded; the 256-bit secp256k1 constants are replaced *)
(* by small curves (CurveParams) with the same shape, so that every value  *)
(* stays far below the range of TLC's integers and no wrap-around exists   *)
(* in the model, as none exists in the code.                               *)
(***************************************************************************)
EXTENDS Integers, Sequences, FiniteSets, TLC

VARIABLES curve, key, call

vars == <<curve, key, call>>

----------------------------------------------------------------------------
(* Bounds of the model *)

\* FieldElement::new is called with integers in -MaxRaw .. MaxRaw
MaxRaw == 40
\* message hashes z are drawn from 0 .. MaxZ
MaxZ == 13
\* nonces are drawn from -1 .. MaxNonce
MaxNonce == 14
\* scalars of Point * Integer are drawn from -1 .. MaxCoeff
MaxCoeff == 20
\* exponents of FieldElement::pow are drawn from -MaxExp .. MaxExp
MaxExp == 4
\* raw point coordinates are drawn from -MaxOver .. prime - 1 + MaxOver
MaxOver == 2
\* base58_encode is called with byte strings of a length up to MaxBytes
MaxBytes == 3
\* the bytes of a digest are drawn from 0 .. HashRange - 1
HashRange == 16
\* a run of the nonce generator is followed for MaxIter iterations of its loop
MaxIter == 3

----------------------------------------------------------------------------
(* Option<T>: None is the empty tuple, Some(v) the one-element tuple *)

None == <<>>
Some(v) == <<v>>
is_none(o) == o = <<>>
is_some(o) == o # <<>>

(* A panic of the Rust runtime, as a value that is passed up the call chain *)
Panic(msg) == [panic |-> msg]
IsPanic(v) == "panic" \in DOMAIN v
Ok(v) == [ok |-> v]
Outcome(v) == IF IsPanic(v) THEN v ELSE Ok(v)

----------------------------------------------------------------------------
(* rug::Integer primitives used by the code *)

\* Integer::div_rem_euc: the remainder r with 0 <= r < |d|
RemEuc(v, d) == v % d

\* remainder of truncating division (sign of the dividend), as `%` gives
RemTrunc(v, d) == IF v >= 0 THEN v % d ELSE 0 - ((0 - v) % d)

\* Integer::invert(modulo): Some(x) with 0 <= x < modulo and v*x = 1 (mod
\* modulo), None when v has no inverse; modulo 1 is the zero ring, where
\* GMP reports the inverse 0.
Invert(v, modulo) ==
  IF modulo = 1 THEN Some(0)
  ELSE IF \E x \in 0 .. modulo - 1 : (v * x) % modulo = 1
       THEN Some(CHOOSE x \in 0 .. modulo - 1 : (v * x) % modulo = 1)
       ELSE None

Square(h, m) == (h * h) % m

RECURSIVE PowNat(_, _, _)
\* b^e mod m for e >= 0 by square and multiply
PowNat(b, e, m) ==
  IF e = 0 THEN 1 % m
  ELSE IF e % 2 = 1 THEN (Square(PowNat(b, e \div 2, m), m) * b) % m
  ELSE Square(PowNat(b, e \div 2, m), m)

\* Integer::pow_mod_ref: None when the exponent is negative and the base
\* has no inverse
PowInv(inv, e, m) ==
  IF is_none(inv) THEN None ELSE Some(PowNat(inv[1], 0 - e, m))

PowMod(b, e, m) ==
  IF e >= 0 THEN Some(PowNat(b % m, e, m))
  ELSE PowInv(Invert(b, m), e, m)

----------------------------------------------------------------------------
(* finitefield.rs *)

GaloisField_new(prime) == [prime |-> prime]

\* value_of with the remainder of truncating division
value_of_trunc(field, value) ==
  IF value < 0 \/ value >= field.prime
  THEN RemTrunc(value, field.prime)
  ELSE value

value_of(field, value) ==
  IF value < 0 \/ value >= field.prime
  THEN RemEuc(value, field.prime)
  ELSE value

FieldElement_new(value, field) ==
  [value |-> value_of(field, value), field |-> field]

is_zero(e) == e.value = 0

\* every Add impl: the result lives in the field of the FieldElement operand
\* (of self when both are elements)
fe_add(a, b) == FieldElement_new(a.value + b.value, a.field)
fe_add_int(a, i) == FieldElement_new(a.value + i, a.field)

fe_sub(a, b) == FieldElement_new(a.value - b.value, a.field)

fe_mul(a, b) == FieldElement_new(a.value * b.value, a.field)
int_mul_fe(i, b) == FieldElement_new(i * b.value, b.field)

\* division that multiplies by the divisor instead of by its inverse
fe_div_noinv(a, b) ==
  IF is_some(Invert(b.value, a.field.prime))
  THEN FieldElement_new(a.value * b.value, a.field)
  ELSE Panic("unreachable")

\* the two arms of `if let Ok(inv) = other.value.invert(prime)`
div_by_inverse(a, inv) ==
  IF is_some(inv)
  THEN FieldElement_new(a.value * inv[1], a.field)
  ELSE Panic("unreachable")

fe_div(a, b) == div_by_inverse(a, Invert(b.value, a.field.prime))

\* the two arms of `if let Some(result) = self.value.pow_mod_ref(..)`
pow_result(a, result) ==
  IF is_some(result)
  THEN FieldElement_new(result[1], a.field)
  ELSE Panic("unreachable")

fe_pow(a, exponent) ==
  IF a.field.prime = 1 THEN FieldElement_new(0, a.field)
  ELSE pow_result(a, PowMod(a.value, exponent, a.field.prime))

----------------------------------------------------------------------------
(* ellipticcurve.rs *)

EllipticCurve_new(a, b) == [a |-> a, b |-> b]

FiniteEllipticCurve_new(ec, field) == [curve |-> ec, field |-> field]

\* y^2 == x^3 + a*x + b, every term in the field of its FieldElement operand
curve_equation(fec, x, y) ==
  fe_pow(y, 2) = fe_add_int(fe_add(fe_pow(x, 3), int_mul_fe(fec.curve.a, x)),
                            fec.curve.b)

\* assert!(x.field == y.field), then the equation
on_curve(fec, x, y) ==
  IF x.field = y.field
  THEN Ok(curve_equation(fec, x, y))
  ELSE Panic("assertion failed: x.field == y.field")

make_element(fec, value) == FieldElement_new(value, fec.field)

Point_new(x, y, fec) == [x |-> x, y |-> y, curve |-> fec]

infinity(fec) == [x |-> None, y |-> None, curve |-> fec]

is_identity(pt) == is_none(pt.x) /\ is_none(pt.y)

\* Result<Point,String>: [ok |-> point] or [err |-> message]
point_if(fec, fx, fy, oc) ==
  IF IsPanic(oc) THEN oc
  ELSE IF oc.ok
       THEN [ok |-> Point_new(Some(fx), Some(fy), fec)]
       ELSE [err |-> "Point is not on curve"]

point_if_on_curve(fec, fx, fy) == point_if(fec, fx, fy, on_curve(fec, fx, fy))

\* a point of the coordinates as given, not reduced into the field
make_point_integral_raw(fec, x, y) ==
  point_if_on_curve(fec, [value |-> x, field |-> fec.field],
                    [value |-> y, field |-> fec.field])

make_point_integral(fec, x, y) ==
  point_if_on_curve(fec, make_element(fec, x), make_element(fec, y))

\* (Some, Some) goes to make_point_integral, every other pair is the identity
make_point(fec, x, y) ==
  IF is_some(x) /\ is_some(y)
  THEN make_point_integral(fec, x[1], y[1])
  ELSE [ok |-> infinity(fec)]

\* the slope with the difference of x taken the other way round
slope_reversed(self, other) ==
  fe_div(fe_sub(other.y[1], self.y[1]), fe_sub(self.x[1], other.x[1]))

\* (y2 - y1) / (x2 - x1); called with both points finite
slope(self, other) ==
  fe_div(fe_sub(other.y[1], self.y[1]), fe_sub(other.x[1], self.x[1]))

\* (3 * x^2 + a) / (2 * y); called with a finite point
tangent_slope(self) ==
  fe_div(fe_add_int(int_mul_fe(3, fe_pow(self.x[1], 2)), self.curve.curve.a),
         int_mul_fe(2, self.y[1]))

\* the point (x3, y) with y = slope * (x1 - x3) + y1
point_from_x3_plus(sl, x1, y1, x3, fec) ==
  Point_new(Some(x3), Some(fe_add(fe_mul(sl, fe_sub(x1, x3)), y1)), fec)

\* y = slope * (x1 - x3) - y1, and the point (x3, y)
point_from_x3(sl, x1, y1, x3, fec) ==
  Point_new(Some(x3), Some(fe_sub(fe_mul(sl, fe_sub(x1, x3)), y1)), fec)

\* the branch of distinct x: x3 = slope^2 - x1 - x2
third_point(sl, x1, y1, x2, fec) ==
  IF IsPanic(sl) THEN sl
  ELSE point_from_x3(sl, x1, y1, fe_sub(fe_sub(fe_pow(sl, 2), x1), x2), fec)

\* doubling with x3 = slope^2 - x1
double_point_once(sl, x1, y1, fec) ==
  IF IsPanic(sl) THEN sl
  ELSE point_from_x3(sl, x1, y1, fe_sub(fe_pow(sl, 2), x1), fec)

\* the doubling branch: x3 = slope^2 - 2 * x1
double_point(sl, x1, y1, fec) ==
  IF IsPanic(sl) THEN sl
  ELSE point_from_x3(sl, x1, y1,
                     fe_sub(fe_pow(sl, 2), int_mul_fe(2, x1)), fec)

\* the match of Point + Point, reached when neither operand is the identity;
\* a panic of the slope's division is passed on
add_finite(self, other) ==
  IF is_some(self.x) /\ is_some(self.y)
     /\ is_some(other.x) /\ is_some(other.y)
  THEN IF self = other
       THEN IF is_zero(self.y[1])
            THEN infinity(self.curve)
            ELSE double_point(tangent_slope(self), self.x[1], self.y[1],
                              self.curve)
       ELSE IF self.x[1] = other.x[1]
       THEN infinity(self.curve)
       ELSE third_point(slope(self, other), self.x[1], self.y[1],
                        other.x[1], self.curve)
  ELSE infinity(self.curve)

\* addition whose identity tests return the wrong operand
Point_add_swapped(self, other) ==
  IF is_identity(other) THEN other
  ELSE IF is_identity(self) THEN self
  ELSE add_finite(self, other)

Point_add(self, other) ==
  IF is_identity(other) THEN self
  ELSE IF is_identity(self) THEN other
  ELSE add_finite(self, other)

RECURSIVE mul_loop(_, _, _)

\* the next iteration, with coeff >>= 1, unless an addition panicked
mul_next(coeff, current, result) ==
  IF IsPanic(result) THEN result
  ELSE IF IsPanic(current) THEN current
  ELSE mul_loop(coeff \div 2, current, result)

\* double-and-add that adds on the even bits
mul_loop_even(coeff, current, result) ==
  IF coeff > 0
  THEN mul_next(coeff, Point_add(current, current),
                IF coeff % 2 = 0 THEN Point_add(result, current) ELSE result)
  ELSE result

\* the while loop of Point * Integer: double-and-add from the low bit
mul_loop(coeff, current, result) ==
  IF coeff > 0
  THEN mul_next(coeff, Point_add(current, current),
                IF coeff % 2 = 1 THEN Point_add(result, current) ELSE result)
  ELSE result

\* the loop started with the point itself as the result
Point_mul_from_self(self, coefficient) ==
  mul_loop(coefficient, self, self)

Point_mul(self, coefficient) ==
  mul_loop(coefficient, self, infinity(self.curve))

\* Point * FieldElement: the product by the value of the element
Point_mul_element(self, coefficient) == Point_mul(self, coefficient.value)

----------------------------------------------------------------------------
(* ecdsa.rs *)

CryptographicCurve_new(fec, generator_point, order) ==
  [finite_curve |-> fec, generator_point |-> generator_point,
   order |-> GaloisField_new(order)]

\* The constants of a curve: base prime p, coefficients a and b, generator
\* (gx, gy) and the prime order n of the generator.  They stand for the
\* secp256k1 constants: <<19,0,3,..>> has its shape (a = 0, p = 3 mod 4,
\* cofactor 1, n < p), <<7,0,3,..>> has n > p, and <<7,1,4,..>> has a # 0,
\* cofactor 2 and a point with y = 0.
CurveParams ==
  { <<19, 0, 3, 1, 2, 13>>, <<7, 0, 3, 1, 2, 13>>, <<7, 1, 4, 4, 3, 5>> }

\* new_secp256k1 with the constants c
new_curve(c) ==
  LET field == GaloisField_new(c[1])
      ec == EllipticCurve_new(c[2], c[3])
      fec == FiniteEllipticCurve_new(ec, field)
      generator_point == make_point_integral(fec, c[4], c[5]).ok
  IN CryptographicCurve_new(fec, generator_point, c[6])

Curves == { new_curve(c) : c \in CurveParams }

\* make_element that keeps the integer as it is
curve_make_element_raw(cc, value) == [value |-> value, field |-> cc.order]

\* CryptographicCurve::make_element: an element modulo the order
curve_make_element(cc, value) == FieldElement_new(value, cc.order)

Signature_new(r, s) == [r |-> r, s |-> s]

\* total.x is compared with r as integers
x_matches(total, r) ==
  IF IsPanic(total) THEN total
  ELSE IF is_some(total.x) THEN Ok(total.x[1].value = r.value)
  ELSE Ok(FALSE)

\* total = u * G + v * public_key
verify_total(ug, vp, r) ==
  IF IsPanic(ug) THEN ug
  ELSE IF IsPanic(vp) THEN vp
  ELSE x_matches(Point_add(ug, vp), r)

verify_uv(u, v, sig, cc, public_key) ==
  IF IsPanic(u) THEN u
  ELSE IF IsPanic(v) THEN v
  ELSE verify_total(Point_mul(cc.generator_point, u.value),
                    Point_mul(public_key, v.value), sig.r)

verify(sig, cc, public_key, message_hash) ==
  verify_uv(fe_div(message_hash, sig.s), fe_div(sig.r, sig.s), sig, cc,
            public_key)

PrivateKey_new(secret, cc) ==
  [secret |-> secret,
   public_key |-> Point_mul(cc.generator_point, secret.value)]

\* sign without the low-s step
low_s_skip(s, prime) == s

\* the low-s step: s.value = prime - s.value when s.value > prime / 2
low_s(s, prime) ==
  IF s.value > prime \div 2
  THEN [s EXCEPT !.value = prime - s.value]
  ELSE s

\* Signature::new(make_element(r), s) after the low-s step
sign_finish(cc, r, s) ==
  IF IsPanic(s) THEN s
  ELSE Signature_new(curve_make_element(cc, r), low_s(s, cc.order.prime))

\* s = (z + r * secret) / k
sign_rs(pk, cc, z, k, r) ==
  sign_finish(cc, r, fe_div(fe_add(z, int_mul_fe(r, pk.secret)), k))

\* r = (k * G).x.unwrap().value
sign_x(pk, cc, z, k, kg) ==
  IF IsPanic(kg) THEN kg
  ELSE IF is_none(kg.x) THEN Panic("unwrap on None")
  ELSE sign_rs(pk, cc, z, k, kg.x[1].value)

sign_k(pk, cc, z, k) ==
  sign_x(pk, cc, z, k, Point_mul(cc.generator_point, k.value))

sign(pk, cc, nonce, message) ==
  sign_k(pk, cc, curve_make_element(cc, message),
         curve_make_element(cc, nonce))

----------------------------------------------------------------------------
(* serialization.rs: byte strings are sequences of integers 0 .. 255 *)

RECURSIVE to_digits(_)
\* Integer::to_digits::<u8>(Order::MsfBe): the big-endian bytes of a
\* non-negative integer without leading zero bytes; no byte at all for 0
to_digits(v) ==
  IF v = 0 THEN <<>> ELSE Append(to_digits(v \div 256), v % 256)

RECURSIVE from_digits(_)
\* Integer::from_digits::<u8>(bytes, Order::MsfBe)
from_digits(bytes) ==
  IF bytes = <<>> THEN 0
  ELSE from_digits(SubSeq(bytes, 1, Len(bytes) - 1)) * 256 + bytes[Len(bytes)]

\* Option::unwrap and Result::unwrap of a value that is not there
UnwrapNone == Panic("called Option::unwrap() on a None value")
unwrap(result) ==
  IF "err" \in DOMAIN result
  THEN Panic("called Result::unwrap() on an Err value")
  ELSE result.ok

\* 0x04, the digits of x, the digits of y
as_sec(pt) ==
  IF is_none(pt.x) \/ is_none(pt.y) THEN UnwrapNone
  ELSE Ok(<<4>> \o to_digits(pt.x[1].value) \o to_digits(pt.y[1].value))

\* 0x02 for an even y and 0x03 for an odd one, then the digits of x
as_compressed_sec(pt) ==
  IF is_none(pt.x) \/ is_none(pt.y) THEN UnwrapNone
  ELSE Ok(<<IF pt.y[1].value % 2 = 0 THEN 2 ELSE 3>>
            \o to_digits(pt.x[1].value))

\* FieldElement::sqrt is called by from_sec and defined in no source file:
\* a^((p + 1) / 4) mod p, the root for a prime p with p % 4 = 3
FieldElement_sqrt(a) ==
  PowNat(a.value, (a.field.prime + 1) \div 4, a.field.prime)

\* the root of the wanted parity: beta itself or prime - beta
beta_of_parity(fec, is_even, beta) ==
  IF (beta % 2 = 0) = is_even
  THEN make_element(fec, beta)
  ELSE make_element(fec, fec.field.prime - beta)

\* alpha = x^3 + b, beta = sqrt(alpha), y = the root of the prefix's parity
decompress(fec, is_even, x) ==
  Point_new(Some(x),
            Some(beta_of_parity(fec, is_even,
                   FieldElement_sqrt(make_element(fec, x.value * x.value * x.value
                                                         + fec.curve.b)))),
            fec)

\* Point::from_sec: data[0] of an empty vector and a slice past the end
\* panic; every leading byte other than 0x04 is read as a compressed key,
\* and every one other than 0x02 as the key of the odd y
from_sec(data, cc) ==
  IF Len(data) = 0 THEN Panic("index out of bounds")
  ELSE IF data[1] = 4
       THEN IF Len(data) < 65
            THEN Panic("range end index out of range for slice")
            ELSE unwrap(make_point_integral(cc.finite_curve,
                          from_digits(SubSeq(data, 2, 33)),
                          from_digits(SubSeq(data, 34, 65))))
       ELSE decompress(cc.finite_curve, data[1] = 2,
                       make_element(cc.finite_curve,
                                    from_digits(SubSeq(data, 2, Len(data)))))

----------------------------------------------------------------------------
\* one INTEGER of a DER signature: the digits, after a 0x00 byte when the
\* high bit of the first digit is set
der_integer(bin) == IF bin[1] >= 128 THEN <<0>> \o bin ELSE bin

\* 0x30, the length of what follows, and what follows
der_final(result) == Ok(<<48, Len(result) % 256>> \o result)

\* 0x02, length, digits of s appended to the part for r; s_bin[0] of an
\* empty vector panics
der_s(result, s_bin) ==
  IF Len(s_bin) = 0 THEN Panic("index out of bounds")
  ELSE der_final(result \o <<2, Len(der_integer(s_bin)) % 256>>
                        \o der_integer(s_bin))

\* 0x02, length, digits of r; r_bin[0] of an empty vector panics
der_r(r_bin, s_bin) ==
  IF Len(r_bin) = 0 THEN Panic("index out of bounds")
  ELSE der_s(<<2, Len(der_integer(r_bin)) % 256>> \o der_integer(r_bin),
             s_bin)

\* Signature::as_der
as_der(sig) == der_r(to_digits(sig.r.value), to_digits(sig.s.value))

----------------------------------------------------------------------------
(* base58.rs: a character is a string of length one *)

BASE58_ALPHABET ==
  <<"1", "2", "3", "4", "5", "6", "7", "8", "9", "A",
   "B", "C", "D", "E", "F", "G", "H", "J", "K", "L",
   "M", "N", "P", "Q", "R", "S", "T", "U", "V", "W",
   "X", "Y", "Z", "a", "b", "c", "d", "e", "f", "g",
   "h", "i", "j", "k", "m", "n", "o", "p", "q", "r",
   "s", "t", "u", "v", "w", "x", "y", "z">>

RECURSIVE leading_zeros_count(_)
\* the number of zero bytes before the first other byte
leading_zeros_count(val) ==
  IF val = <<>> \/ val[1] # 0 THEN 0
  ELSE 1 + leading_zeros_count(Tail(val))

RECURSIVE base58_digits(_)
\* the while loop: the character of num rem 58 is pushed, num becomes
\* num div 58, until num is 0 (least significant digit first)
base58_digits(num) ==
  IF num > 0
  THEN <<BASE58_ALPHABET[(num % 58) + 1]>> \o base58_digits(num \div 58)
  ELSE <<>>

\* Vec::reverse
reverse(s) == [i \in 1 .. Len(s) |-> s[Len(s) + 1 - i]]

\* the encoding with the digits left in the order of the loop
base58_encode_unreversed(val) ==
  [i \in 1 .. leading_zeros_count(val) |-> "1"]
    \o base58_digits(from_digits(val))

base58_encode(val) ==
  [i \in 1 .. leading_zeros_count(val) |-> "1"]
    \o reverse(base58_digits(from_digits(val)))

----------------------------------------------------------------------------
(* messagedigest.rs and nonce_generator_rfc6979 of ecdsa.rs.  SHA-256 and  *)
(* HMAC-SHA256 come from external crates; each is a fixed function of its  *)
(* input, here with a digest of one byte below HashRange.                  *)

RECURSIVE Fold(_)
\* a number that depends on every byte of a byte string and on its length
Fold(bytes) ==
  IF bytes = <<>> THEN 7
  ELSE (Fold(SubSeq(bytes, 1, Len(bytes) - 1)) * 31 + bytes[Len(bytes)] + 1)
         % 1009

sha256(data) == <<Fold(data) % HashRange>>

hmac_sha256(k, data) ==
  <<((Fold(k) * 13 + Fold(data) * 5 + 1) % 1009) % HashRange>>

\* v = HMAC_K(v) with the first key, t = empty string
nonce_first_v(k, v) == [k |-> k, v |-> hmac_sha256(k, v), t |-> <<>>]

\* the state at the head of the loop: v = 32 bytes 0x01, k = 32 bytes 0x00,
\* k = HMAC_K(v || 0x00 || private_key || h1), v = HMAC_K(v)
nonce_init(message, private_key) ==
  nonce_first_v(hmac_sha256([i \in 1 .. 32 |-> 0],
                            [i \in 1 .. 32 |-> 1] \o <<0>> \o private_key
                              \o sha256(message)),
                [i \in 1 .. 32 |-> 1])

\* v = HMAC_K(v); t = t || v
nonce_draw(st) ==
  [k |-> st.k, v |-> hmac_sha256(st.k, st.v),
   t |-> st.t \o hmac_sha256(st.k, st.v)]

\* the test that lets 0 through
nonce_in_range_from_zero(result, curve_order) ==
  result >= 0 /\ result < curve_order

\* result >= 1 && result < *curve_order
nonce_in_range(result, curve_order) ==
  result >= 1 /\ result < curve_order

\* v = HMAC_K(v) with the new key
nonce_rekey(k, st) == [k |-> k, v |-> hmac_sha256(k, st.v), t |-> st.t]

\* after a rejected candidate: k = HMAC_K(v || 0x00), v = HMAC_K(v)
nonce_reject(st) == nonce_rekey(hmac_sha256(st.k, st.v \o <<0>>), st)

\* the iteration whose candidate is the integer of the digits of t
nonce_test_t(drawn, curve_order) ==
  IF nonce_in_range(from_digits(drawn.t), curve_order)
  THEN [ok |-> from_digits(drawn.t), final |-> drawn]
  ELSE [running |-> nonce_reject(drawn)]

\* one iteration: the candidate is the integer of the digits of v; it is
\* returned when it is in range, otherwise the loop goes on
nonce_test(drawn, curve_order) ==
  IF nonce_in_range(from_digits(drawn.v), curve_order)
  THEN [ok |-> from_digits(drawn.v), final |-> drawn]
  ELSE [running |-> nonce_reject(drawn)]

nonce_iteration(st, curve_order) == nonce_test(nonce_draw(st), curve_order)

----------------------------------------------------------------------------
(* The values a driver can hand to the library *)

\* moduli of GaloisField::new besides the two of the curve; the constructor
\* takes any integer, prime or not
ExtraModuli == {1, 6}

Fields(cc) ==
  {cc.finite_curve.field, cc.order} \cup {GaloisField_new(m) : m \in ExtraModuli}

Elements(field) == {FieldElement_new(v, field) : v \in 0 .. field.prime - 1}

\* the points make_point_integral accepts, and the identity
Points(fec) ==
  {infinity(fec)} \cup
  {make_point_integral(fec, xy[1], xy[2]).ok :
     xy \in {c \in (0 .. fec.field.prime - 1) \X (0 .. fec.field.prime - 1) :
               "ok" \in DOMAIN make_point_integral(fec, c[1], c[2])}}

\* the integers a driver hands over as point coordinates: below 0, inside the
\* field and above the prime
Coordinates(fec) == (0 - MaxOver) .. (fec.field.prime - 1 + MaxOver)

\* the two fields of a cryptographic curve: coordinates and scalars
CurveFields(cc) == {cc.finite_curve.field, cc.order}

\* bytes left-padded with zero bytes to a width
Padded(bytes, width) ==
  [i \in 1 .. width |->
     IF i <= width - Len(bytes) THEN 0 ELSE bytes[i - (width - Len(bytes))]]

\* the points of the curve other than the identity
FinitePoints(fec) == {pt \in Points(fec) : ~ is_identity(pt)}

\* what follows the leading byte of a compressed key: nothing, the digits of
\* x, x on 32 bytes, and x on 32 bytes with one more byte
CompressedBodies(fec) ==
  {<<>>}
  \cup {to_digits(x) : x \in 0 .. fec.field.prime - 1}
  \cup {Padded(to_digits(x), 32) : x \in 0 .. fec.field.prime - 1}
  \cup {Padded(to_digits(x), 32) \o <<0>> : x \in 0 .. fec.field.prime - 1}

\* what follows the leading byte of an uncompressed key: x and y on 32 bytes
\* each for every pair of the field, and, for the points of the curve, the
\* same with the last byte missing and with one more byte
UncompressedBodies(fec) ==
  {Padded(to_digits(x), 32) \o Padded(to_digits(y), 32) :
     x \in 0 .. fec.field.prime - 1, y \in 0 .. fec.field.prime - 1}
  \cup {SubSeq(Padded(to_digits(pt.x[1].value), 32)
                \o Padded(to_digits(pt.y[1].value), 32), 1, 63) :
          pt \in FinitePoints(fec)}
  \cup {Padded(to_digits(pt.x[1].value), 32)
          \o Padded(to_digits(pt.y[1].value), 32) \o <<0>> :
          pt \in FinitePoints(fec)}

\* leading bytes besides 0x04
OtherPrefixes == {0, 2, 3, 5}

\* the byte strings handed to from_sec; the long bodies go with 0x04 only,
\* so that from_digits of a whole body stays a small integer
SecInputs(fec) ==
  {<<>>}
  \cup {<<4>> \o b : b \in UncompressedBodies(fec) \cup CompressedBodies(fec)}
  \cup {<<pre>> \o b : pre \in OtherPrefixes, b \in CompressedBodies(fec)}

\* r and s of the signatures handed to as_der: the elements of the scalar
\* field, and elements of a larger field around the byte boundaries
DerElements(cc) ==
  Elements(cc.order)
  \cup {FieldElement_new(v, GaloisField_new(65537)) :
          v \in {127, 128, 255, 256, 32767, 32768, 65535}}

\* the bytes of the inputs of base58_encode
Base58Bytes == {0, 1, 57, 58, 127}

\* the byte strings of a length up to MaxBytes
ByteStrings ==
  UNION {[1 .. len -> Base58Bytes] : len \in 0 .. MaxBytes}

\* the messages handed to the nonce generator
NonceMessages == UNION {[1 .. len -> 0 .. 2] : len \in 0 .. 2}

Call(op, args, out) == [op |-> op, args |-> args, out |-> out]

----------------------------------------------------------------------------
(* The state machine *)

\* the driver has built its curve (and keys) and has made no other call yet
Ready == call.op \in {"new_curve", "new_key"}

Init ==
  /\ curve \in Curves
  /\ key = None
  /\ call = Call("new_curve", <<>>, Ok(curve))

\* FieldElement::new(value, field)
NewElement ==
  /\ Ready
  /\ \E f \in Fields(curve), v \in (0 - MaxRaw) .. MaxRaw :
       /\ call' = Call("new", [value |-> v, field |-> f],
                       Ok(FieldElement_new(v, f)))
       /\ UNCHANGED <<curve, key>>

\* a + b
Add ==
  /\ Ready
  /\ \E f \in Fields(curve) : \E a \in Elements(f), b \in Elements(f) :
       /\ call' = Call("add", [a |-> a, b |-> b], Ok(fe_add(a, b)))
       /\ UNCHANGED <<curve, key>>

\* a - b
Sub ==
  /\ Ready
  /\ \E f \in Fields(curve) : \E a \in Elements(f), b \in Elements(f) :
       /\ call' = Call("sub", [a |-> a, b |-> b], Ok(fe_sub(a, b)))
       /\ UNCHANGED <<curve, key>>

\* a * b
Mul ==
  /\ Ready
  /\ \E f \in Fields(curve) : \E a \in Elements(f), b \in Elements(f) :
       /\ call' = Call("mul", [a |-> a, b |-> b], Ok(fe_mul(a, b)))
       /\ UNCHANGED <<curve, key>>

\* a / b
Div ==
  /\ Ready
  /\ \E f \in Fields(curve) : \E a \in Elements(f), b \in Elements(f) :
       /\ call' = Call("div", [a |-> a, b |-> b], Outcome(fe_div(a, b)))
       /\ UNCHANGED <<curve, key>>

\* a.pow(exponent)
Pow ==
  /\ Ready
  /\ \E f \in Fields(curve) : \E a \in Elements(f), e \in (0 - MaxExp) .. MaxExp :
       /\ call' = Call("pow", [a |-> a, exponent |-> e], Outcome(fe_pow(a, e)))
       /\ UNCHANGED <<curve, key>>

\* p + q
PointAdd ==
  /\ Ready
  /\ \E p \in Points(curve.finite_curve), q \in Points(curve.finite_curve) :
       /\ call' = Call("point_add", [p |-> p, q |-> q], Outcome(Point_add(p, q)))
       /\ UNCHANGED <<curve, key>>

\* (p + q) + r and p + (q + r), continuing the sum p + q just computed
PointAddThird ==
  /\ call.op = "point_add"
  /\ "ok" \in DOMAIN call.out
  /\ \E r \in Points(curve.finite_curve) :
       LET p == call.args.p
           q == call.args.q
           qr == Point_add(q, r)
       IN call' = Call("point_add3", [p |-> p, q |-> q, r |-> r],
                       [left |-> Outcome(Point_add(call.out.ok, r)),
                        right |-> IF IsPanic(qr) THEN qr
                                  ELSE Outcome(Point_add(p, qr))])
  /\ UNCHANGED <<curve, key>>

\* p * coefficient
PointMul ==
  /\ Ready
  /\ \E p \in Points(curve.finite_curve), c \in (0 - 1) .. MaxCoeff :
       /\ call' = Call("point_mul", [p |-> p, coefficient |-> c],
                       Outcome(Point_mul(p, c)))
       /\ UNCHANGED <<curve, key>>

\* PrivateKey::new(secret, curve)
NewKey ==
  /\ Ready
  /\ \E secret \in Elements(curve.order) :
       LET pk == PrivateKey_new(secret, curve)
       IN /\ key' = Some(pk)
          /\ call' = Call("new_key", [secret |-> secret], Ok(pk))
          /\ UNCHANGED curve

\* key.sign(nonce, message)
Sign ==
  /\ Ready
  /\ is_some(key)
  /\ \E nonce \in (0 - 1) .. MaxNonce, message \in 0 .. MaxZ :
       call' = Call("sign", [nonce |-> nonce, message |-> message],
                    Outcome(sign(key[1], curve, nonce, message)))
  /\ UNCHANGED <<curve, key>>

\* sig.verify(key.public_key, make_element(message)) for the signature just
\* returned by sign
VerifySigned ==
  /\ is_some(key)
  /\ call.op = "sign"
  /\ "ok" \in DOMAIN call.out
  /\ call' = Call("verify",
                  [sig |-> call.out.ok, public_key |-> key[1].public_key,
                   message_hash |-> curve_make_element(curve, call.args.message),
                   signed |-> Some(call.args)],
                  verify(call.out.ok, curve, key[1].public_key,
                         curve_make_element(curve, call.args.message)))
  /\ UNCHANGED <<curve, key>>

\* Signature::new(r, s).verify(public_key, z) for any r, s, z of the order
\* field
VerifyAny ==
  /\ Ready
  /\ is_some(key)
  /\ \E r \in Elements(curve.order), s \in Elements(curve.order),
        z \in Elements(curve.order) :
       call' = Call("verify",
                    [sig |-> Signature_new(r, s),
                     public_key |-> key[1].public_key,
                     message_hash |-> z, signed |-> None],
                    verify(Signature_new(r, s), curve, key[1].public_key, z))
  /\ UNCHANGED <<curve, key>>

\* curve.on_curve(x, y)
OnCurve ==
  /\ Ready
  /\ \E f \in CurveFields(curve), g \in CurveFields(curve) :
       \E x \in Elements(f), y \in Elements(g) :
         call' = Call("on_curve", [x |-> x, y |-> y],
                      on_curve(curve.finite_curve, x, y))
  /\ UNCHANGED <<curve, key>>

\* curve.make_point_integral(x, y)
MakePointIntegral ==
  /\ Ready
  /\ \E x \in Coordinates(curve.finite_curve),
        y \in Coordinates(curve.finite_curve) :
       call' = Call("make_point_integral", [x |-> x, y |-> y],
                    make_point_integral(curve.finite_curve, x, y))
  /\ UNCHANGED <<curve, key>>

\* curve.make_point(x, y) with optional coordinates
MakePoint ==
  /\ Ready
  /\ \E x \in {None} \cup {Some(v) : v \in Coordinates(curve.finite_curve)},
        y \in {None} \cup {Some(v) : v \in Coordinates(curve.finite_curve)} :
       call' = Call("make_point", [x |-> x, y |-> y],
                    make_point(curve.finite_curve, x, y))
  /\ UNCHANGED <<curve, key>>

\* p.as_sec()
AsSec ==
  /\ Ready
  /\ \E p \in Points(curve.finite_curve) :
       call' = Call("as_sec", [p |-> p], as_sec(p))
  /\ UNCHANGED <<curve, key>>

\* p.as_compressed_sec()
AsCompressedSec ==
  /\ Ready
  /\ \E p \in Points(curve.finite_curve) :
       call' = Call("as_compressed_sec", [p |-> p], as_compressed_sec(p))
  /\ UNCHANGED <<curve, key>>

\* Point::from_sec of the bytes the encoder has just returned
FromSecEncoded ==
  /\ call.op \in {"as_sec", "as_compressed_sec"}
  /\ "ok" \in DOMAIN call.out
  /\ call' = Call("from_sec",
                  [data |-> call.out.ok,
                   encoded |-> Some([p |-> call.args.p, by |-> call.op])],
                  Outcome(from_sec(call.out.ok, curve)))
  /\ UNCHANGED <<curve, key>>

\* Point::from_sec of bytes from elsewhere
FromSecAny ==
  /\ Ready
  /\ \E data \in SecInputs(curve.finite_curve) :
       call' = Call("from_sec", [data |-> data, encoded |-> None],
                    Outcome(from_sec(data, curve)))
  /\ UNCHANGED <<curve, key>>

\* Signature::new(r, s, curve).as_der()
AsDer ==
  /\ Ready
  /\ \E r \in DerElements(curve), s \in DerElements(curve) :
       call' = Call("as_der", [sig |-> Signature_new(r, s)],
                    as_der(Signature_new(r, s)))
  /\ UNCHANGED <<curve, key>>

\* base58_encode(val)
Base58Encode ==
  /\ Ready
  /\ \E val \in ByteStrings :
       call' = Call("base58_encode", [val |-> val], Ok(base58_encode(val)))
  /\ UNCHANGED <<curve, key>>

\* nonce_generator_rfc6979(message, private_key, curve_order) up to the head
\* of its loop, for the bytes of the secret of the key
NonceStart ==
  /\ Ready
  /\ is_some(key)
  /\ \E message \in NonceMessages :
       call' = Call("nonce",
                    [message |-> message,
                     private_key |-> to_digits(key[1].secret.value),
                     curve_order |-> curve.order.prime,
                     first |-> None],
                    [running |-> nonce_init(message,
                                            to_digits(key[1].secret.value))])
  /\ UNCHANGED <<curve, key>>

\* one iteration of the loop of the running call
NonceIter ==
  /\ call.op = "nonce"
  /\ "running" \in DOMAIN call.out
  /\ Len(call.out.running.t) < MaxIter
  /\ call' = [call EXCEPT !.out = nonce_iteration(call.out.running,
                                                   call.args.curve_order)]
  /\ UNCHANGED <<curve, key>>

\* a second call that starts from the k and v the first call ended with
NonceAgainWarm ==
  /\ call.op = "nonce"
  /\ "ok" \in DOMAIN call.out
  /\ is_none(call.args.first)
  /\ call' = Call("nonce", [call.args EXCEPT !.first = Some(call.out.ok)],
                  [running |-> [call.out.final EXCEPT !.t = <<>>]])
  /\ UNCHANGED <<curve, key>>

\* a second call with the arguments of the call that has just returned; k,
\* v, t and result are locals of the function, set anew on entry
NonceAgain ==
  /\ call.op = "nonce"
  /\ "ok" \in DOMAIN call.out
  /\ is_none(call.args.first)
  /\ call' = Call("nonce", [call.args EXCEPT !.first = Some(call.out.ok)],
                  [running |-> nonce_init(call.args.message,
                                          call.args.private_key)])
  /\ UNCHANGED <<curve, key>>

\* a + b with a and b of the two different fields of the curve
MixedAdd ==
  /\ Ready
  /\ \E f \in CurveFields(curve) :
       \E a \in Elements(f),
          b \in UNION {Elements(g) : g \in CurveFields(curve) \ {f}} :
         call' = Call("add", [a |-> a, b |-> b], Ok(fe_add(a, b)))
  /\ UNCHANGED <<curve, key>>

\* a - b with a and b of the two different fields of the curve
MixedSub ==
  /\ Ready
  /\ \E f \in CurveFields(curve) :
       \E a \in Elements(f),
          b \in UNION {Elements(g) : g \in CurveFields(curve) \ {f}} :
         call' = Call("sub", [a |-> a, b |-> b], Ok(fe_sub(a, b)))
  /\ UNCHANGED <<curve, key>>

\* a * b with a and b of the two different fields of the curve
MixedMul ==
  /\ Ready
  /\ \E f \in CurveFields(curve) :
       \E a \in Elements(f),
          b \in UNION {Elements(g) : g \in CurveFields(curve) \ {f}} :
         call' = Call("mul", [a |-> a, b |-> b], Ok(fe_mul(a, b)))
  /\ UNCHANGED <<curve, key>>

\* a / b with a and b of the two different fields of the curve
MixedDiv ==
  /\ Ready
  /\ \E f \in CurveFields(curve) :
       \E a \in Elements(f),
          b \in UNION {Elements(g) : g \in CurveFields(curve) \ {f}} :
         call' = Call("div", [a |-> a, b |-> b], Outcome(fe_div(a, b)))
  /\ UNCHANGED <<curve, key>>

\* p * e with e a FieldElement of the coordinate field or the scalar field
PointMulElement ==
  /\ Ready
  /\ \E p \in Points(curve.finite_curve) :
       \E c \in UNION {Elements(f) : f \in CurveFields(curve)} :
         call' = Call("point_mul_element", [p |-> p, coefficient |-> c],
                      Outcome(Point_mul_element(p, c)))
  /\ UNCHANGED <<curve, key>>

Next ==
  \/ NewElement
  \/ Add
  \/ Sub
  \/ Mul
  \/ Div
  \/ Pow
  \/ PointAdd
  \/ PointAddThird
  \/ PointMul
  \/ NewKey
  \/ Sign
  \/ VerifySigned
  \/ VerifyAny
  \/ OnCurve
  \/ MakePointIntegral
  \/ MakePoint
  \/ AsSec
  \/ AsCompressedSec
  \/ FromSecEncoded
  \/ FromSecAny
  \/ AsDer
  \/ Base58Encode
  \/ NonceStart
  \/ NonceIter
  \/ NonceAgain
  \/ MixedAdd
  \/ MixedSub
  \/ MixedMul
  \/ MixedDiv
  \/ PointMulElement

Spec == Init /\ [][Next]_vars

----------------------------------------------------------------------------
(* Vocabulary of the properties *)

Returned == "ok" \in DOMAIN call.out
Panicked == "panic" \in DOMAIN call.out

\* the generator and the order of the curve in use
G == curve.generator_point
n == curve.order.prime

IsPrime(m) == m > 1 /\ \A d \in 2 .. m - 1 : m % d # 0

RECURSIVE NTimes(_, _)
\* pt added to itself: pt + pt + ... + pt with k summands (identity for 0)
NTimes(pt, k) == IF k <= 0 THEN infinity(pt.curve)
                 ELSE Point_add(NTimes(pt, k - 1), pt)

\* the verify call that follows a sign call with a secret and a nonce in
\* [1, n)
RoundTripCase ==
  /\ call.op = "verify"
  /\ is_some(call.args.signed)
  /\ key[1].secret.value \in 1 .. n - 1
  /\ call.args.signed[1].nonce \in 1 .. n - 1

----------------------------------------------------------------------------
(* C1: for every secret in [1, n), nonce k in [1, n) and message hash z,   *)
(* verifying the signature sign(k, z) against the public key of the secret *)
(* and make_element(z) returns true.                                       *)
C1_RoundTrip == RoundTripCase => call.out = Ok(TRUE)

----------------------------------------------------------------------------
\* The value the sign call in `call` has to return, computed from the
\* definition of ECDSA: r is the x of k*G (k summands of G) reduced mod n,
\* and s0 the solution of s0 * k = z + r * secret in the integers mod n.
SignR == NTimes(G, call.args.nonce % n).x[1].value % n
SignS0 ==
  CHOOSE v \in 0 .. n - 1 :
    (v * (call.args.nonce % n)) % n
      = (call.args.message + SignR * key[1].secret.value) % n

(* C2: every signature returned by sign has s.value <= floor(n/2), s being *)
(* (z + r*secret)/k in the mod-n field when that is <= n/2 and n minus it  *)
(* otherwise, and r the x-coordinate of k*G reduced mod n.                 *)
C2_LowS ==
  (call.op = "sign" /\ Returned) =>
    /\ call.out.ok.s.value <= n \div 2
    /\ call.out.ok.s.value
         = (IF SignS0 <= n \div 2 THEN SignS0 ELSE n - SignS0)
    /\ call.out.ok.r.value = SignR

\* a signature whose s was replaced by n - s
C2_Witness ==
  /\ call.op = "sign"
  /\ Returned
  /\ SignS0 > n \div 2
  /\ call.out.ok.s.value = n - SignS0

----------------------------------------------------------------------------
(* C3 as stated: sign returns a Signature for every nonce k with           *)
(* k mod n # 0, and for k mod n = 0 it fails with the division by zero of  *)
(* the field division.                                                     *)
C3_FailsByDivision ==
  call.op = "sign" =>
    /\ (call.args.nonce % n # 0 => Returned)
    /\ (call.args.nonce % n = 0 => call.out = Panic("unreachable"))

(* C3 (amended): sign returns a Signature for every nonce k with           *)
(* k mod n # 0, and for k mod n = 0 it fails, before any division, on      *)
(* unwrapping the x-coordinate of k*G, which is the identity.              *)
C3_FailsIffNonceZero ==
  call.op = "sign" =>
    /\ (call.args.nonce % n # 0 => Returned)
    /\ (call.args.nonce % n = 0 => call.out = Panic("unwrap on None"))

\* sign called with the nonce n, which is not 0 and reduces to 0
C3_Witness ==
  /\ call.op = "sign"
  /\ call.args.nonce = n
  /\ Panicked

----------------------------------------------------------------------------
(* C4: verify on a signature with s = 0 (mod n) rejects it, by returning   *)
(* false or a DivisionByZero error, and does not crash.                    *)
C4_RejectsZeroS ==
  (call.op = "verify" /\ call.args.sig.s.value = 0) =>
    \/ call.out = Ok(FALSE)
    \/ call.out = [err |-> "DivisionByZero"]

----------------------------------------------------------------------------
Canonical(e) == 0 <= e.value /\ e.value < e.field.prime

(* C5: every FieldElement returned by new, add, sub, mul, div and pow, and *)
(* the r and s of every Signature returned by sign, has                    *)
(* 0 <= value < prime.                                                     *)
C5_CanonicalResidue ==
  /\ (call.op \in {"new", "add", "sub", "mul", "div", "pow"} /\ Returned)
       => Canonical(call.out.ok)
  /\ (call.op = "sign" /\ Returned)
       => Canonical(call.out.ok.r) /\ Canonical(call.out.ok.s)

\* a subtraction whose integer difference is negative
C5_Witness ==
  /\ call.op = "sub"
  /\ call.args.a.value < call.args.b.value
  /\ Returned
  /\ call.out.ok.value = call.args.a.value - call.args.b.value
                           + call.args.a.field.prime

----------------------------------------------------------------------------
(* C6: in a prime field, for b # 0, a / b returns an element and           *)
(* (a / b) * b == a (a and b elements of that one field).                  *)
C6_DivInvertsMul ==
  (call.op = "div" /\ IsPrime(call.args.a.field.prime)
     /\ call.args.b.field = call.args.a.field
     /\ call.args.b.value # 0) =>
    /\ Returned
    /\ fe_mul(call.out.ok, call.args.b) = call.args.a

\* a division in a prime field by a divisor other than 0 and 1
C6_Witness ==
  /\ call.op = "div"
  /\ IsPrime(call.args.a.field.prime)
  /\ call.args.b.field = call.args.a.field
  /\ call.args.b.value > 1
  /\ call.args.a.value # 0
  /\ Returned

----------------------------------------------------------------------------
RECURSIVE Gcd(_, _)
Gcd(x, y) == IF y = 0 THEN x ELSE Gcd(y, x % y)

(* C7: a / b returns an explicit DivisionByZero failure result, and no     *)
(* element, whenever gcd(b.value, prime) # 1.                              *)
C7_DivReportsError ==
  (call.op = "div"
     /\ Gcd(call.args.b.value, call.args.a.field.prime) # 1) =>
    call.out = [err |-> "DivisionByZero"]

----------------------------------------------------------------------------
(* C8: P + Identity == P and Identity + P == P for every point P of the    *)
(* curve, the identity included.                                           *)
C8_IdentityNeutral ==
  call.op = "point_add" =>
    /\ (is_identity(call.args.q) => call.out = Ok(call.args.p))
    /\ (is_identity(call.args.p) => call.out = Ok(call.args.q))

\* a finite point added to the identity
C8_Witness ==
  /\ call.op = "point_add"
  /\ is_identity(call.args.q)
  /\ ~ is_identity(call.args.p)
  /\ call.out = Ok(call.args.p)

----------------------------------------------------------------------------
(* C9: (P + Q) + R == P + (Q + R) for all points P, Q, R of the curve,     *)
(* with the identity, equal points and opposite points among them.         *)
C9_Associative ==
  call.op = "point_add3" =>
    /\ "ok" \in DOMAIN call.out.left
    /\ call.out.left = call.out.right

\* (P + P) + R with R a finite point other than P and a finite sum
C9_Witness ==
  /\ call.op = "point_add3"
  /\ ~ is_identity(call.args.p)
  /\ call.args.q = call.args.p
  /\ ~ is_identity(call.args.r)
  /\ call.args.r # call.args.p
  /\ "ok" \in DOMAIN call.out.left
  /\ ~ is_identity(call.out.left.ok)
  /\ call.out.left = call.out.right

----------------------------------------------------------------------------
(* C10: n * G is the identity, and for 1 <= k < n the point (n - k) * G    *)
(* has the x of k * G and the negated y.                                   *)
C10_OrderOfG ==
  (call.op = "point_mul" /\ call.args.p = G) =>
    /\ (call.args.coefficient = n => call.out = Ok(infinity(G.curve)))
    /\ (call.args.coefficient \in 1 .. n - 1 =>
          LET kG == Point_mul(G, n - call.args.coefficient)
          IN /\ Returned
             /\ is_some(call.out.ok.x)
             /\ call.out.ok.x = kG.x
             /\ call.out.ok.y[1]
                  = FieldElement_new(0 - kG.y[1].value, kG.y[1].field))

\* G multiplied by its order
C10_Witness ==
  /\ call.op = "point_mul"
  /\ call.args.p = G
  /\ call.args.coefficient = n
  /\ call.out = Ok(infinity(G.curve))

----------------------------------------------------------------------------
\* y^2 == x^3 + a*x + b modulo the prime of the curve in use, over the integers
CurveEq(x, y) ==
  (y * y - (x * x * x + curve.finite_curve.curve.a * x
              + curve.finite_curve.curve.b))
    % curve.finite_curve.field.prime = 0

\* the point of the curve in use with the coordinates x and y reduced
ReducedPoint(x, y) ==
  [x |-> Some([value |-> x % curve.finite_curve.field.prime,
               field |-> curve.finite_curve.field]),
   y |-> Some([value |-> y % curve.finite_curve.field.prime,
               field |-> curve.finite_curve.field]),
   curve |-> curve.finite_curve]

(* C11: on_curve(x, y) is true exactly when y^2 == x^3 + a*x + b in the    *)
(* field of the curve, and make_point_integral(x, y) returns the point of  *)
(* the reduced coordinates when that holds and the error "Point is not on  *)
(* curve" otherwise, for every integer pair (x, y).                        *)
C11_Membership ==
  /\ (call.op = "on_curve"
        /\ call.args.x.field = curve.finite_curve.field
        /\ call.args.y.field = curve.finite_curve.field)
       => call.out = Ok(CurveEq(call.args.x.value, call.args.y.value))
  /\ call.op = "make_point_integral"
       => call.out = IF CurveEq(call.args.x, call.args.y)
                     THEN [ok |-> ReducedPoint(call.args.x, call.args.y)]
                     ELSE [err |-> "Point is not on curve"]

\* a point accepted from an x above the prime and a negative y
C11_Witness ==
  /\ call.op = "make_point_integral"
  /\ call.args.x >= curve.finite_curve.field.prime
  /\ call.args.y < 0
  /\ Returned
  /\ call.out.ok.x[1].value = call.args.x - curve.finite_curve.field.prime

----------------------------------------------------------------------------
(* C12: make_point(x?, y?) with exactly one of the two coordinates present *)
(* fails, and it yields the identity only when both are absent.            *)
C12_OneAbsentFails ==
  call.op = "make_point" =>
    /\ (is_some(call.args.x) # is_some(call.args.y) => ~ Returned)
    /\ (call.out = [ok |-> infinity(curve.finite_curve)]
          => is_none(call.args.x) /\ is_none(call.args.y))

----------------------------------------------------------------------------
\* the width of a coordinate in a SEC encoding
SecCoordinateLen == 32

(* C13: for every non-identity point with coordinates in [0, p), as_sec    *)
(* returns exactly 65 bytes: 0x04, x as 32 big-endian zero-padded bytes,   *)
(* y as 32 big-endian zero-padded bytes; as_compressed_sec returns exactly *)
(* 33 bytes: 0x02 for an even y and 0x03 for an odd one, then x as 32      *)
(* big-endian zero-padded bytes.                                           *)
C13_SecFixedWidth ==
  /\ (call.op = "as_sec" /\ ~ is_identity(call.args.p)) =>
       /\ Returned
       /\ Len(call.out.ok) = 2 * SecCoordinateLen + 1
       /\ call.out.ok =
            <<4>> \o Padded(to_digits(call.args.p.x[1].value), SecCoordinateLen)
                  \o Padded(to_digits(call.args.p.y[1].value), SecCoordinateLen)
  /\ (call.op = "as_compressed_sec" /\ ~ is_identity(call.args.p)) =>
       /\ Returned
       /\ Len(call.out.ok) = SecCoordinateLen + 1
       /\ call.out.ok =
            <<IF call.args.p.y[1].value % 2 = 0 THEN 2 ELSE 3>>
              \o Padded(to_digits(call.args.p.x[1].value), SecCoordinateLen)

----------------------------------------------------------------------------
(* C14: for every valid non-identity point P of the curve,                 *)
(* from_sec(P.as_sec()) == P and from_sec(P.as_compressed_sec()) == P.     *)
C14_SecRoundTrip ==
  (call.op = "from_sec" /\ is_some(call.args.encoded)
     /\ curve.finite_curve.curve.a = 0) =>
    call.out = Ok(call.args.encoded[1].p)

----------------------------------------------------------------------------
\* a SEC input that is 0x04 with 64 more bytes, or 0x02 or 0x03 with 32 more
WellFormedSec(data) ==
  /\ Len(data) > 0
  /\ \/ data[1] = 4 /\ Len(data) = 2 * SecCoordinateLen + 1
     \/ data[1] \in {2, 3} /\ Len(data) = SecCoordinateLen + 1

(* C15: from_sec fails with InvalidEncoding, returning no point, for every *)
(* input whose leading byte is not 0x04, 0x02 or 0x03 and for every input  *)
(* of malformed length (not 65 bytes after 0x04, not 33 bytes after 0x02   *)
(* or 0x03, or empty).                                                     *)
C15_RejectsMalformed ==
  (call.op = "from_sec" /\ ~ WellFormedSec(call.args.data)) =>
    call.out = [err |-> "InvalidEncoding"]

----------------------------------------------------------------------------
\* the minimal big-endian bytes of v, one zero byte for 0, and a zero byte
\* in front when the high bit of the first byte is set
DerBytes(v) ==
  IF v = 0 THEN <<0>>
  ELSE IF to_digits(v)[1] >= 128 THEN <<0>> \o to_digits(v) ELSE to_digits(v)

\* tag 0x02, length, bytes
DerTlv(v) == <<2, Len(DerBytes(v))>> \o DerBytes(v)

(* C16: for every signature (r, s) with r, s in [0, n), as_der returns     *)
(* 0x30, LEN, then 0x02, len(R), R, then 0x02, len(S), S, where R and S    *)
(* are the minimal big-endian byte strings of r and s, each prefixed with  *)
(* 0x00 exactly when the high bit of its first byte is set, and LEN is the *)
(* byte length of the two inner TLVs.                                      *)
C16_DerEncoding ==
  call.op = "as_der" =>
    call.out = Ok(<<48, Len(DerTlv(call.args.sig.r.value))
                          + Len(DerTlv(call.args.sig.s.value))>>
                    \o DerTlv(call.args.sig.r.value)
                    \o DerTlv(call.args.sig.s.value))

----------------------------------------------------------------------------
RECURSIVE BigEndian(_)
\* the unsigned integer a byte string denotes, most significant byte first
BigEndian(bytes) ==
  IF bytes = <<>> THEN 0
  ELSE bytes[1] * 256 ^ (Len(bytes) - 1) + BigEndian(Tail(bytes))

RECURSIVE Base58Numeral(_)
\* the base-58 digits of an integer, most significant first; none for 0
Base58Numeral(v) ==
  IF v = 0 THEN <<>>
  ELSE Append(Base58Numeral(v \div 58), BASE58_ALPHABET[(v % 58) + 1])

\* the number of zero bytes a byte string starts with
LeadingZeros(bytes) ==
  Cardinality({i \in 1 .. Len(bytes) : \A j \in 1 .. i : bytes[j] = 0})

(* C17: for every byte sequence, base58_encode returns one '1' character   *)
(* per leading zero byte of the input, followed by the base-58 digits      *)
(* (most significant first, mapped through the 58-character alphabet) of   *)
(* the input read as a big-endian unsigned integer; the numeric part is    *)
(* empty when that integer is 0.                                           *)
C17_Base58 ==
  call.op = "base58_encode" =>
    /\ call.out = Ok([i \in 1 .. LeadingZeros(call.args.val) |-> "1"]
                       \o Base58Numeral(BigEndian(call.args.val)))
    /\ (BigEndian(call.args.val) = 0
          => Len(call.out.ok) = Len(call.args.val))

\* a zero byte in front of a number of two base-58 digits
C17_Witness ==
  /\ call.op = "base58_encode"
  /\ call.args.val = <<0, 1, 0>>
  /\ call.out = Ok(<<"1", "5", "R">>)

----------------------------------------------------------------------------
----------------------------------------------------------------------------
\* the candidate of iteration i of the call: the integer of the i-th digest
\* appended to t (a digest is one byte)
Candidate(t, i) == from_digits(SubSeq(t, i, i))

(* C19: whenever nonce_generator_rfc6979 returns t, 0 < t < n holds, so    *)
(* the nonce never reduces to 0 mod n; the loop returns at the first       *)
(* iteration whose candidate lies in that range, and no iteration cap      *)
(* rejects an input: a call is running or has returned a nonce.            *)
C19_NonceRange ==
  call.op = "nonce" =>
    /\ DOMAIN call.out \in {{"running"}, {"ok", "final"}}
    /\ Returned =>
         /\ 0 < call.out.ok /\ call.out.ok < call.args.curve_order
         /\ call.out.ok % call.args.curve_order # 0
         /\ call.out.ok
              = Candidate(call.out.final.t, Len(call.out.final.t))
         /\ \A i \in 1 .. Len(call.out.final.t) - 1 :
              ~ (0 < Candidate(call.out.final.t, i)
                  /\ Candidate(call.out.final.t, i) < call.args.curve_order)
    /\ "running" \in DOMAIN call.out =>
         \A i \in 1 .. Len(call.out.running.t) :
           ~ (0 < Candidate(call.out.running.t, i)
               /\ Candidate(call.out.running.t, i) < call.args.curve_order)

\* a nonce returned after a candidate 0 and a candidate above the order
\* were rejected
C19_Witness ==
  /\ call.op = "nonce"
  /\ Returned
  /\ Len(call.out.final.t) = 3
  /\ \E i \in 1 .. 2 : Candidate(call.out.final.t, i) = 0
  /\ \E i \in 1 .. 2 :
       Candidate(call.out.final.t, i) >= call.args.curve_order

----------------------------------------------------------------------------
(* C20: add, sub, mul and div of an element of one field with an element   *)
(* of another field never return an element (they fail with a             *)
(* MismatchedField error), and on_curve rejects operands of different      *)
(* fields.                                                                 *)
C20_MismatchedFieldFails ==
  /\ (call.op \in {"add", "sub", "mul", "div"}
        /\ call.args.a.field # call.args.b.field) => ~ Returned
  /\ (call.op = "on_curve" /\ call.args.x.field # call.args.y.field)
       => ~ Returned

----------------------------------------------------------------------------
\* the coefficients and the prime of the curve in use
CurveA == curve.finite_curve.curve.a
CurveB == curve.finite_curve.curve.b
CurveP == curve.finite_curve.field.prime

\* the quotient num / den modulo the prime of the curve: the one residue q
\* with q * den = num
Quotient(num, den) ==
  CHOOSE q \in 0 .. CurveP - 1 : (q * den - num) % CurveP = 0

\* the third point of the line of slope l through (x1, y1) and (x2, .)
LinePoint(l, x1, y1, x2) ==
  ReducedPoint(l * l - x1 - x2,
               l * (x1 - ((l * l - x1 - x2) % CurveP)) - y1)

(* C21: for operands other than the identity, P + P with y = 0 is the      *)
(* identity; P + P with y # 0 is (L^2 - 2x, L(x - x3) - y) with            *)
(* L = (3x^2 + a) / (2y); P + Q with P # Q and equal x is the identity;    *)
(* P + Q with different x is (L^2 - x1 - x2, L(x1 - x3) - y1) with         *)
(* L = (y2 - y1) / (x2 - x1); no case divides by zero.                     *)
C21_GroupLawCases ==
  (call.op = "point_add"
     /\ ~ is_identity(call.args.p) /\ ~ is_identity(call.args.q)) =>
    LET x1 == call.args.p.x[1].value
        y1 == call.args.p.y[1].value
        x2 == call.args.q.x[1].value
        y2 == call.args.q.y[1].value
    IN /\ Returned
       /\ call.out.ok =
            IF x1 = x2 /\ y1 = y2
            THEN IF y1 = 0
                 THEN infinity(curve.finite_curve)
                 ELSE LinePoint(Quotient(3 * x1 * x1 + CurveA, 2 * y1),
                                x1, y1, x1)
            ELSE IF x1 = x2
                 THEN infinity(curve.finite_curve)
                 ELSE LinePoint(Quotient(y2 - y1, x2 - x1), x1, y1, x2)

\* the sum of two points of different x that is a point of the curve
C21_Witness ==
  /\ call.op = "point_add"
  /\ ~ is_identity(call.args.p) /\ ~ is_identity(call.args.q)
  /\ call.args.p.x # call.args.q.x
  /\ call.args.p.y[1].value # call.args.q.y[1].value
  /\ Returned
  /\ ~ is_identity(call.out.ok)

----------------------------------------------------------------------------
(* C22: k * P equals P added to itself k times for every point P of the    *)
(* curve and every k >= 1; for k <= 0 the result is the identity; the      *)
(* product by a FieldElement is the product by its integer value.          *)
C22_MulIsRepeatedAdd ==
  /\ call.op = "point_mul" =>
       call.out = Ok(NTimes(call.args.p, call.args.coefficient))
  /\ (call.op = "point_mul" /\ call.args.coefficient <= 0) =>
       call.out = Ok(infinity(curve.finite_curve))
  /\ call.op = "point_mul_element" =>
       call.out = Ok(NTimes(call.args.p, call.args.coefficient.value))

\* a finite point multiplied by a scalar of several bits that is above the
\* order of the generator
C22_Witness ==
  /\ call.op = "point_mul"
  /\ ~ is_identity(call.args.p)
  /\ call.args.coefficient > n
  /\ call.args.coefficient % 2 = 1
  /\ Returned
  /\ ~ is_identity(call.out.ok)

----------------------------------------------------------------------------
\* x and y both absent, or both present with y^2 = x^3 + a*x + b in the
\* field of the curve in use
WellFormedPoint(pt) ==
  \/ is_none(pt.x) /\ is_none(pt.y)
  \/ /\ is_some(pt.x) /\ is_some(pt.y)
     /\ pt.x[1].field = curve.finite_curve.field
     /\ pt.y[1].field = curve.finite_curve.field
     /\ pt.x[1].value \in 0 .. CurveP - 1
     /\ pt.y[1].value \in 0 .. CurveP - 1
     /\ CurveEq(pt.x[1].value, pt.y[1].value)

(* C23: every point returned by the addition or the scalar multiplication  *)
(* of points of the curve, and the public_key of every PrivateKey, has x   *)
(* and y both present or both absent, and when present satisfies           *)
(* y^2 = x^3 + a*x + b over the field of the curve.                        *)
C23_MembershipPreserved ==
  /\ call.op \in {"point_add", "point_mul", "point_mul_element"} =>
       Returned /\ WellFormedPoint(call.out.ok)
  /\ call.op = "point_add3" =>
       "ok" \in DOMAIN call.out.left /\ WellFormedPoint(call.out.left.ok)
  /\ is_some(key) => WellFormedPoint(key[1].public_key)

\* a doubling that returns a finite point, with a key whose public_key is
\* a finite point
C23_Witness ==
  /\ call.op = "point_add"
  /\ call.args.p = call.args.q
  /\ Returned
  /\ is_some(call.out.ok.x)
  /\ is_some(key)
  /\ is_some(key[1].public_key.x)

----------------------------------------------------------------------------
(* C24: for every input 0x02 or 0x03 followed by x, from_sec returns a     *)
(* point whose y satisfies y^2 = x^3 + b (mod p) and whose parity matches  *)
(* the prefix (even for 0x02, odd for 0x03); it never returns coordinates  *)
(* that are off the curve.                                                 *)
C24_CompressedDecode ==
  (call.op = "from_sec" /\ Len(call.args.data) > 0
     /\ call.args.data[1] \in {2, 3} /\ CurveA = 0) =>
    /\ Returned
    /\ call.out.ok.x[1].value
         = from_digits(SubSeq(call.args.data, 2, Len(call.args.data)))
             % CurveP
    /\ (call.out.ok.y[1].value * call.out.ok.y[1].value
          - (call.out.ok.x[1].value * call.out.ok.x[1].value
               * call.out.ok.x[1].value + CurveB)) % CurveP = 0
    /\ call.out.ok.y[1].value % 2 = (IF call.args.data[1] = 2 THEN 0 ELSE 1)

----------------------------------------------------------------------------
\* 0 < t < order
InRange(t, order) == 0 < t /\ t < order

\* a step of the loop of the nonce generator
LoopStep ==
  /\ call.op = "nonce"
  /\ "running" \in DOMAIN call.out
  /\ call' # call

\* what the loop does with K and V in every iteration, the candidate aside:
\* V = HMAC_K(V), T = T || V, and after a rejected candidate
\* K = HMAC_K(V || 0x00), then V = HMAC_K(V) with the new K
LoopUpdate(drawn_v) ==
  /\ "running" \in DOMAIN call'.out =>
       /\ call'.out.running.t = call.out.running.t \o drawn_v
       /\ call'.out.running.k
            = hmac_sha256(call.out.running.k, drawn_v \o <<0>>)
       /\ call'.out.running.v
            = hmac_sha256(hmac_sha256(call.out.running.k, drawn_v \o <<0>>),
                          drawn_v)
  /\ "ok" \in DOMAIN call'.out =>
       call'.out.final.t = call.out.running.t \o drawn_v

----------------------------------------------------------------------------
RECURSIVE Power(_, _)
\* b^e over the integers modulo m, by repeated multiplication
Power(b, e) ==
  IF e = 0 THEN 1 ELSE (b * Power(b, e - 1)) % call.args.a.field.prime

(* C26: pow(a, e) returns a^e mod prime for every element a and every      *)
(* integer exponent e, negative exponents included (as the inverse raised  *)
(* to |e|); a^0 = 1 also for a = 0; when prime == 1 every result is 0.     *)
C26_Pow ==
  (call.op = "pow"
     /\ (IsPrime(call.args.a.field.prime) \/ call.args.a.field.prime = 1)) =>
    /\ Returned
    /\ call.out.ok.field = call.args.a.field
    /\ call.args.a.field.prime = 1 => call.out.ok.value = 0
    /\ (call.args.a.field.prime > 1 /\ call.args.exponent >= 0) =>
         call.out.ok.value
           = Power(call.args.a.value, call.args.exponent)
               % call.args.a.field.prime
    /\ (call.args.a.field.prime > 1 /\ call.args.exponent < 0) =>
         \E inv \in 0 .. call.args.a.field.prime - 1 :
           /\ (inv * call.args.a.value) % call.args.a.field.prime = 1
           /\ call.out.ok.value = Power(inv, 0 - call.args.exponent)

====
